---- MODULE Spec2Model ----
(***************************************************************************)
(* zippeek: the Central-Directory reader of src/src/zip.c (the mmap        *)
(* variant, lines 601-997) and its caller main of src/src/main.c.          *)
(*                                                                         *)
(* The file is a byte buffer; one run of the program maps it, locates the  *)
(* EOCD record by a backward scan, decodes it, walks the CDFH chain twice  *)
(* (sizing pass, materialization pass) and hands the entries to main.      *)
(* Every loop iteration of the source is one step of the model.            *)
(***************************************************************************)
EXTENDS Integers, Sequences, FiniteSets, TLC

(***************************************************************************)
(* Program constants.                                                      *)
(***************************************************************************)
EOCD_MAX_COMMENT_LEN == 65535      \* 0xFFFF
EOCD_FIXED_SIZE == 22
CDFH_FIXED_SIZE == 46

ZIP_OK == 0
ZIP_ERR_MEM_ALLOC == 4
ZIP_ERR_BUFFER_TOO_SMALL == 7
ZIP_ERR_BUFFER_TRUNCATED == 8
ZIP_ERR_EOCD_NOT_FOUND == 10
ZIP_ERR_EOCD_SIGNATURE_BAD == 11
ZIP_ERR_CD_ENTRY_SIGNATURE_BAD == 23

(***************************************************************************)
(* 32- and 64-bit quantities.  A uint32_t or off_t value v is kept as the  *)
(* pair of v \div 2^16 and v % 2^16, which holds every value the program   *)
(* computes; a uint32_t result is reduced modulo 2^32 by WU32.             *)
(***************************************************************************)
Wide(n) == [h |-> n \div 65536, l |-> n % 65536]

WInt(a) == a.h * 65536 + a.l

WAdd(a, b) ==
    [h |-> a.h + b.h + ((a.l + b.l) \div 65536), l |-> (a.l + b.l) % 65536]

WLe(a, b) == a.h < b.h \/ (a.h = b.h /\ a.l <= b.l)

WGt(a, b) == ~WLe(a, b)

WU32(a) == [h |-> a.h % 65536, l |-> a.l]

EOCD_SIGNATURE == [h |-> 1541, l |-> 19280]    \* 0x06054b50
\* a variant that takes the signature of a local file header, 0x04034B50
CDFH_SIGNATURE_of_local_header == [h |-> 1027, l |-> 19280]

CDFH_SIGNATURE == [h |-> 513, l |-> 19280]     \* 0x02014b50

(***************************************************************************)
(* Bounds of the model.                                                    *)
(***************************************************************************)
\* the largest number of CDFH records written into a generated archive
MaxEntries == 2
\* the greatest length of the generated files that hold no archive
MaxJunk == 23

(***************************************************************************)
(* The byte buffer.  A file is head ++ gap zero bytes ++ tail, so that a   *)
(* file longer than the 65557-byte search window is a small value.         *)
(***************************************************************************)
Zeros(n) == [k \in 1..n |-> 0]

BufSize(b) == Len(b.head) + b.gap + Len(b.tail)

\* zip_buffer[i] for 0 <= i (0-based, as in the source).  From index size on
\* it is the remainder of the last page of the mapping, which mmap fills with
\* zero bytes.
Byte(b, i) ==
    IF i < Len(b.head) THEN b.head[i + 1]
    ELSE IF i < Len(b.head) + b.gap THEN 0
    ELSE IF i < BufSize(b) THEN b.tail[i - Len(b.head) - b.gap + 1]
    ELSE 0

\* the little-endian decodings the source spells out byte by byte
RdU16(b, p) == Byte(b, p) + 256 * Byte(b, p + 1)

RdU32(b, p) ==
    [l |-> Byte(b, p) + 256 * Byte(b, p + 1),
     h |-> Byte(b, p + 2) + 256 * Byte(b, p + 3)]

\* the bytes [p, p+n) of the buffer, as memcpy copies them
Slice(b, p, n) == [k \in 1..n |-> Byte(b, p + k - 1)]

(***************************************************************************)
(* The byte indices a function read: an interval, empty when hi < lo.      *)
(***************************************************************************)
NoRead == [lo |-> 0, hi |-> -1]

RdJoin(r, lo, hi) ==
    IF hi < lo THEN r
    ELSE IF r.hi < r.lo THEN [lo |-> lo, hi |-> hi]
    ELSE [lo |-> IF lo < r.lo THEN lo ELSE r.lo,
          hi |-> IF hi > r.hi THEN hi ELSE r.hi]

(***************************************************************************)
(* read_eocd: decode the 22 fixed bytes at eocd_pos.  old is *eocd_out     *)
(* before the call; a failing call leaves the fields it did not reach.     *)
(***************************************************************************)
NoEocd ==
    [signature |-> Wide(0), this_disk |-> 0, central_dir_disk |-> 0,
     total_entries_this_disk |-> 0, total_entries |-> 0,
     central_dir_size |-> Wide(0), central_dir_offset |-> Wide(0),
     comment_length |-> 0]

\* a variant that takes central_dir_offset and central_dir_size from each
\* other's place
read_eocd_size_offset_swapped(b, zip_size, eocd_pos, old) ==
    IF eocd_pos < 0 \/ eocd_pos + EOCD_FIXED_SIZE > zip_size
    THEN [err |-> ZIP_ERR_BUFFER_TRUNCATED, eocd |-> old, lo |-> 0, hi |-> -1]
    ELSE IF RdU32(b, eocd_pos) # EOCD_SIGNATURE
    THEN [err |-> ZIP_ERR_EOCD_SIGNATURE_BAD,
          eocd |-> [old EXCEPT !.signature = RdU32(b, eocd_pos)],
          lo |-> eocd_pos, hi |-> eocd_pos + 3]
    ELSE [err |-> ZIP_OK,
          eocd |-> [signature |-> RdU32(b, eocd_pos),
                    this_disk |-> RdU16(b, eocd_pos + 4),
                    central_dir_disk |-> RdU16(b, eocd_pos + 6),
                    total_entries_this_disk |-> RdU16(b, eocd_pos + 8),
                    total_entries |-> RdU16(b, eocd_pos + 10),
                    central_dir_size |-> RdU32(b, eocd_pos + 16),
                    central_dir_offset |-> RdU32(b, eocd_pos + 12),
                    comment_length |-> RdU16(b, eocd_pos + 20)],
          lo |-> eocd_pos, hi |-> eocd_pos + 21]

read_eocd(b, zip_size, eocd_pos, old) ==
    IF eocd_pos < 0 \/ eocd_pos + EOCD_FIXED_SIZE > zip_size
    THEN [err |-> ZIP_ERR_BUFFER_TRUNCATED, eocd |-> old, lo |-> 0, hi |-> -1]
    ELSE IF RdU32(b, eocd_pos) # EOCD_SIGNATURE
    THEN [err |-> ZIP_ERR_EOCD_SIGNATURE_BAD,
          eocd |-> [old EXCEPT !.signature = RdU32(b, eocd_pos)],
          lo |-> eocd_pos, hi |-> eocd_pos + 3]
    ELSE [err |-> ZIP_OK,
          eocd |-> [signature |-> RdU32(b, eocd_pos),
                    this_disk |-> RdU16(b, eocd_pos + 4),
                    central_dir_disk |-> RdU16(b, eocd_pos + 6),
                    total_entries_this_disk |-> RdU16(b, eocd_pos + 8),
                    total_entries |-> RdU16(b, eocd_pos + 10),
                    central_dir_size |-> RdU32(b, eocd_pos + 12),
                    central_dir_offset |-> RdU32(b, eocd_pos + 16),
                    comment_length |-> RdU16(b, eocd_pos + 20)],
          lo |-> eocd_pos, hi |-> eocd_pos + 21]

(***************************************************************************)
(* fast_cdfh_va_params_sum / fast_cdfh_va_file_name: the length fields of  *)
(* the CDFH at cdfh_pos.  Out of bounds they return the status code        *)
(* ZIP_ERR_BAD_BUFFER in place of a length.                                *)
(***************************************************************************)
ZIP_ERR_BAD_BUFFER == 6

\* a variant that refuses a record whose fixed part ends exactly at the end
\* of the buffer
cdfh_out_of_bounds_at_end(cdfh_pos, zip_size) ==
    ~WGt(Wide(zip_size), WAdd(cdfh_pos, Wide(CDFH_FIXED_SIZE)))

\* cdfh_pos < 0 || (size_t)cdfh_pos + CDFH_FIXED_SIZE > zip_size, for an
\* off_t that is never negative here (it starts as a uint32_t and grows)
cdfh_out_of_bounds(cdfh_pos, zip_size) ==
    WGt(WAdd(cdfh_pos, Wide(CDFH_FIXED_SIZE)), Wide(zip_size))

fast_cdfh_va_params_sum(b, zip_size, cdfh_pos) ==
    IF cdfh_out_of_bounds(cdfh_pos, zip_size)
    THEN ZIP_ERR_BAD_BUFFER
    ELSE RdU16(b, WInt(cdfh_pos) + 28) + RdU16(b, WInt(cdfh_pos) + 30)
            + RdU16(b, WInt(cdfh_pos) + 32)

\* a variant that takes the comment length for the name length
fast_cdfh_va_file_name_from_comment(b, zip_size, cdfh_pos) ==
    IF cdfh_out_of_bounds(cdfh_pos, zip_size)
    THEN ZIP_ERR_BAD_BUFFER
    ELSE RdU16(b, WInt(cdfh_pos) + 32)

fast_cdfh_va_file_name(b, zip_size, cdfh_pos) ==
    IF cdfh_out_of_bounds(cdfh_pos, zip_size)
    THEN ZIP_ERR_BAD_BUFFER
    ELSE RdU16(b, WInt(cdfh_pos) + 28)

(***************************************************************************)
(* read_cdfh: decode the 46 fixed bytes at cdfh_pos and copy the name into *)
(* a fresh heap block.  malloc_ok is what malloc answers if it is asked.   *)
(* The result says whether malloc was asked (asked) and whether            *)
(* cdfh.file_name holds a live block (file_name.alloc).                    *)
(***************************************************************************)
NullName == [alloc |-> FALSE, bytes |-> <<>>]

NoCdfh ==
    [signature |-> Wide(0), version_made_by |-> 0, version_needed |-> 0,
     bit_flag |-> 0, comp_method |-> 0, last_mod_file_time |-> 0,
     last_mod_file_date |-> 0, crc32 |-> Wide(0), comp_size |-> Wide(0),
     uncomp_size |-> Wide(0), file_name_len |-> 0, extra_field_len |-> 0,
     file_comment_len |-> 0, disk_num_start |-> 0, internal_file_attr |-> 0,
     external_file_attr |-> Wide(0), local_header_offset |-> Wide(0),
     file_name |-> NullName]

CdfhFixed(b, p) ==
    [signature |-> RdU32(b, p),
     version_made_by |-> RdU16(b, p + 4),
     version_needed |-> RdU16(b, p + 6),
     bit_flag |-> RdU16(b, p + 8),
     comp_method |-> RdU16(b, p + 10),
     last_mod_file_time |-> RdU16(b, p + 12),
     last_mod_file_date |-> RdU16(b, p + 14),
     crc32 |-> RdU32(b, p + 16),
     comp_size |-> RdU32(b, p + 20),
     uncomp_size |-> RdU32(b, p + 24),
     file_name_len |-> RdU16(b, p + 28),
     extra_field_len |-> RdU16(b, p + 30),
     file_comment_len |-> RdU16(b, p + 32),
     disk_num_start |-> RdU16(b, p + 34),
     internal_file_attr |-> RdU16(b, p + 36),
     external_file_attr |-> RdU32(b, p + 38),
     local_header_offset |-> RdU32(b, p + 42),
     file_name |-> NullName]

read_cdfh(b, zip_size, cdfh_pos, malloc_ok) ==
    IF cdfh_out_of_bounds(cdfh_pos, zip_size)
    THEN [err |-> ZIP_ERR_BUFFER_TRUNCATED, cdfh |-> NoCdfh, asked |-> FALSE,
          lo |-> 0, hi |-> -1]
    ELSE LET p == WInt(cdfh_pos)
             c == CdfhFixed(b, p)
             file_name_offset == p + CDFH_FIXED_SIZE
             fixed_hi == p + CDFH_FIXED_SIZE - 1
         IN  IF RdU32(b, p) # CDFH_SIGNATURE
             THEN [err |-> ZIP_ERR_CD_ENTRY_SIGNATURE_BAD,
                   cdfh |-> [NoCdfh EXCEPT !.signature = RdU32(b, p)],
                   asked |-> FALSE, lo |-> p, hi |-> p + 3]
             ELSE IF c.file_name_len = 0
             THEN [err |-> ZIP_OK, cdfh |-> c, asked |-> FALSE,
                   lo |-> p, hi |-> fixed_hi]
             ELSE IF file_name_offset + c.file_name_len > zip_size
             THEN [err |-> ZIP_ERR_BUFFER_TRUNCATED, cdfh |-> c,
                   asked |-> FALSE, lo |-> p, hi |-> fixed_hi]
             ELSE IF ~malloc_ok
             THEN [err |-> ZIP_ERR_MEM_ALLOC, cdfh |-> c, asked |-> TRUE,
                   lo |-> p, hi |-> fixed_hi]
             ELSE [err |-> ZIP_OK,
                   cdfh |-> [c EXCEPT !.file_name =
                       [alloc |-> TRUE,
                        bytes |-> Slice(b, file_name_offset, c.file_name_len)]],
                   asked |-> TRUE,
                   lo |-> p,
                   hi |-> file_name_offset + c.file_name_len - 1]

(***************************************************************************)
(* The files the program is run on.  An archive is written the way the     *)
(* decoders above read it (little-endian, unpadded): prefix bytes, a chain *)
(* of CDFH records, the EOCD record and its comment.                       *)
(***************************************************************************)
LE16(v) == <<v % 256, (v \div 256) % 256>>

LE32(w) == LE16(w.l) \o LE16(w.h)

Hex32(h, l) == [h |-> h, l |-> l]

Fill(n, x) == [k \in 1..n |-> x]

\* what one CDFH record of a generated archive says.  file_name_len is the
\* length field as written, name the name bytes actually present.
ShapeA ==    \* "a.txt", stored, 10 bytes
    [signature |-> CDFH_SIGNATURE, name |-> <<97, 46, 116, 120, 116>>,
     file_name_len |-> 5, extra_field_len |-> 0, file_comment_len |-> 0,
     bit_flag |-> 0, comp_method |-> 0, crc32 |-> Hex32(57005, 48879),
     comp_size |-> Wide(10), uncomp_size |-> Wide(10),
     local_header_offset |-> Wide(0)]

ShapeE ==    \* an entry with an empty name and one extra byte
    [signature |-> CDFH_SIGNATURE, name |-> <<>>,
     file_name_len |-> 0, extra_field_len |-> 1, file_comment_len |-> 0,
     bit_flag |-> 2056, comp_method |-> 8, crc32 |-> Hex32(4660, 22136),
     comp_size |-> Hex32(258, 772), uncomp_size |-> Hex32(1286, 1800),
     local_header_offset |-> Hex32(2571, 3085)]

ShapeB ==    \* "b", deflated, with a two-byte file comment
    [signature |-> CDFH_SIGNATURE, name |-> <<98>>,
     file_name_len |-> 1, extra_field_len |-> 0, file_comment_len |-> 2,
     bit_flag |-> 513, comp_method |-> 2048, crc32 |-> Hex32(43981, 61185),
     comp_size |-> Hex32(65535, 65535), uncomp_size |-> Hex32(65280, 255),
     local_header_offset |-> Hex32(4386, 13124)]

ShapeX ==    \* a record whose signature is that of a local file header
    [signature |-> Hex32(1027, 19280), name |-> <<99>>,
     file_name_len |-> 1, extra_field_len |-> 0, file_comment_len |-> 0,
     bit_flag |-> 0, comp_method |-> 0, crc32 |-> Wide(1),
     comp_size |-> Wide(2), uncomp_size |-> Wide(3),
     local_header_offset |-> Wide(4)]

ShapeL ==    \* a record whose name length field overruns the file
    [signature |-> CDFH_SIGNATURE, name |-> <<100>>,
     file_name_len |-> 300, extra_field_len |-> 0, file_comment_len |-> 0,
     bit_flag |-> 0, comp_method |-> 0, crc32 |-> Wide(5),
     comp_size |-> Wide(6), uncomp_size |-> Wide(7),
     local_header_offset |-> Wide(8)]

Shapes == {ShapeA, ShapeE, ShapeB, ShapeX, ShapeL}

CdfhBytes(r) ==
    LE32(r.signature) \o LE16(788) \o LE16(20) \o LE16(r.bit_flag)
        \o LE16(r.comp_method) \o LE16(27195) \o LE16(23138)
        \o LE32(r.crc32) \o LE32(r.comp_size) \o LE32(r.uncomp_size)
        \o LE16(r.file_name_len) \o LE16(r.extra_field_len)
        \o LE16(r.file_comment_len) \o LE16(0) \o LE16(1)
        \o LE32(Hex32(33188, 32)) \o LE32(r.local_header_offset)
        \o r.name \o Fill(r.extra_field_len, 238)
        \o Fill(r.file_comment_len, 204)

RECURSIVE ChainBytes(_)
ChainBytes(rs) ==
    IF rs = <<>> THEN <<>>
    ELSE CdfhBytes(Head(rs)) \o ChainBytes(Tail(rs))

EocdBytes(e) ==
    LE32(EOCD_SIGNATURE) \o LE16(0) \o LE16(0) \o LE16(e.total_entries % 65536)
        \o LE16(e.total_entries % 65536) \o LE32(e.central_dir_size)
        \o LE32(e.central_dir_offset) \o LE16(e.comment_length)

\* the comments that follow the EOCD record
Comments ==
    { <<>>,
      <<122, 105, 112>>,
      LE32(EOCD_SIGNATURE) \o <<33, 33>>,
      LE32(EOCD_SIGNATURE) \o Fill(EOCD_FIXED_SIZE, 0) }

Prefixes == { <<>>, <<80, 75>> }

\* how the EOCD of a generated archive departs from the truth
Tampers ==
    {"none", "more", "fewer", "zero", "size_short", "size_wrap", "size_big",
     "off_plus", "off_far"}

Chains == UNION { [1..n -> Shapes] : n \in 0..MaxEntries }

Archive(prefix, rs, tamper, comment) ==
    LET cd == ChainBytes(rs)
        n == Len(rs)
        e == [total_entries |->
                  CASE tamper = "more" -> n + 1
                    [] tamper = "fewer" -> IF n > 0 THEN n - 1 ELSE 0
                    [] tamper = "zero" -> 0
                    [] OTHER -> n,
              central_dir_size |->
                  CASE tamper = "size_short" ->
                          Wide(IF Len(cd) > 0 THEN Len(cd) - 1 ELSE 0)
                    [] tamper = "size_wrap" -> Hex32(65535, 65535)
                    [] tamper = "size_big" -> Hex32(32768, 0)
                    [] OTHER -> Wide(Len(cd)),
              central_dir_offset |->
                  CASE tamper = "off_plus" -> Wide(Len(prefix) + 1)
                    [] tamper = "off_far" -> Hex32(65535, 65535)
                    [] OTHER -> Wide(Len(prefix)),
              comment_length |-> Len(comment)]
    IN  [bytes |-> [head |-> prefix \o cd \o EocdBytes(e) \o comment,
                    gap |-> 0, tail |-> <<>>],
         kind |-> "archive", tamper |-> tamper, chain |-> rs,
         eocd_at |-> Len(prefix) + Len(cd), comment |-> comment]

Archives ==
    { Archive(pre, rs, t, c) :
        pre \in Prefixes, rs \in Chains, t \in Tampers, c \in Comments }

\* files with no archive structure: all zero, or starting with the EOCD
\* signature
JunkSizes == 0..MaxJunk

Junk(b) ==
    [bytes |-> b, kind |-> "junk", tamper |-> "none", chain |-> <<>>,
     eocd_at |-> -1, comment |-> <<>>]

JunkFiles ==
    { Junk([head |-> Zeros(n), gap |-> 0, tail |-> <<>>]) : n \in JunkSizes }
    \cup
    { Junk([head |-> LE32(EOCD_SIGNATURE) \o Zeros(n - 4), gap |-> 0,
            tail |-> <<>>]) : n \in JunkSizes \ (0..3) }

\* files longer than the search window: a signature, EOCD_MAX_COMMENT_LEN
\* zero bytes, and a short tail that puts the signature on the lowest offset
\* of the window or just below it
BigFiles ==
    { Junk([head |-> LE32(EOCD_SIGNATURE), gap |-> EOCD_MAX_COMMENT_LEN,
            tail |-> Zeros(t)]) :
        t \in {EOCD_FIXED_SIZE - 4, EOCD_FIXED_SIZE - 3} }

\* archives of one record, "a.txt", whose extra field length says 300 though
\* the EOCD follows the name at once; central_dir_size is the 51 bytes the
\* record has, or 0x80000000
OverlongFiles ==
    { [bytes |->
           [head |-> [CdfhBytes(ShapeA) EXCEPT ![31] = 44, ![32] = 1]
                       \o EocdBytes([total_entries |-> 1,
                                      central_dir_size |-> s,
                                      central_dir_offset |-> Wide(0),
                                      comment_length |-> 0]),
            gap |-> 0, tail |-> <<>>],
       kind |-> "overlong", tamper |-> "none", chain |-> <<ShapeA>>,
       eocd_at |-> Len(CdfhBytes(ShapeA)), comment |-> <<>>] :
        s \in {Wide(Len(CdfhBytes(ShapeA))), Hex32(32768, 0)} }

Files == Archives \cup JunkFiles \cup BigFiles \cup OverlongFiles

(***************************************************************************)
(* The remaining status codes and get_zip_error_message, the switch that   *)
(* gives each status code its message.                                     *)
(***************************************************************************)
ZIP_ERR_IO_READ == 1
ZIP_ERR_IO_WRITE == 2
ZIP_ERR_IO_SEEK == 3
ZIP_ERR_INVALID_ARG == 5
ZIP_ERR_EOCD_CORRUPT_FIELDS == 12
ZIP_ERR_CENTRAL_DIR_LOC == 20
ZIP_ERR_CENTRAL_DIR_READ == 21
ZIP_ERR_CENTRAL_DIR_CORRUPT == 22
ZIP_ERR_CD_ENTRY_CORRUPT == 24
ZIP_ERR_LFH_LOC == 30
ZIP_ERR_LFH_READ == 31
ZIP_ERR_LFH_SIGNATURE_BAD == 32
ZIP_ERR_LFH_CORRUPT == 33
ZIP_ERR_COMPRESSION_UNSUPPORTED == 50
ZIP_ERR_DECOMPRESSION_FAILED == 51
ZIP_ERR_GENERIC == 99

\* a variant in which one arm repeats the message of the arm above it
get_zip_error_message_repeated_arm(code) ==
    CASE code = ZIP_OK -> "No error"
      [] code = ZIP_ERR_IO_READ -> "Failed to read data from the file"
      [] code = ZIP_ERR_IO_WRITE -> "Failed to write data to the file"
      [] code = ZIP_ERR_IO_SEEK -> "Failed to change file offset"
      [] code = ZIP_ERR_MEM_ALLOC -> "Memory allocation failed"
      [] code = ZIP_ERR_INVALID_ARG -> "Invalid argument provided"
      [] code = ZIP_ERR_BAD_BUFFER -> "Bad file descriptor"
      [] code = ZIP_ERR_BUFFER_TOO_SMALL -> "ZIP file is too small or invalid"
      [] code = ZIP_ERR_BUFFER_TRUNCATED ->
             "File ended prematurely or incomplete read"
      [] code = ZIP_ERR_EOCD_NOT_FOUND ->
             "End of Central Directory record not found"
      [] code = ZIP_ERR_EOCD_SIGNATURE_BAD -> "Incorrect EOCD signature"
      [] code = ZIP_ERR_EOCD_CORRUPT_FIELDS ->
             "EOCD fields are corrupted or inconsistent"
      [] code = ZIP_ERR_CENTRAL_DIR_LOC -> "Failed to seek to Central Directory"
      [] code = ZIP_ERR_CENTRAL_DIR_READ ->
             "Failed to read Central Directory data"
      [] code = ZIP_ERR_CENTRAL_DIR_CORRUPT ->
             "Central Directory data is corrupted"
      [] code = ZIP_ERR_CD_ENTRY_SIGNATURE_BAD ->
             "Central Directory entry has incorrect signature"
      [] code = ZIP_ERR_CD_ENTRY_CORRUPT ->
             "Central Directory entry fields are corrupted"
      [] code = ZIP_ERR_LFH_LOC -> "Failed to seek to Local File Header"
      [] code = ZIP_ERR_LFH_READ -> "Failed to read Local File Header"
      [] code = ZIP_ERR_LFH_SIGNATURE_BAD ->
             "Local File Header has incorrect signature"
      [] code = ZIP_ERR_LFH_CORRUPT ->
             "Local File Header has incorrect signature"
      [] code = ZIP_ERR_COMPRESSION_UNSUPPORTED ->
             "Compression method not supported"
      [] code = ZIP_ERR_DECOMPRESSION_FAILED -> "Decompression failed"
      [] code = ZIP_ERR_GENERIC -> "An unclassified generic error occurred"
      [] OTHER -> "Unknown ZIP error code"

get_zip_error_message(code) ==
    CASE code = ZIP_OK -> "No error"
      [] code = ZIP_ERR_IO_READ -> "Failed to read data from the file"
      [] code = ZIP_ERR_IO_WRITE -> "Failed to write data to the file"
      [] code = ZIP_ERR_IO_SEEK -> "Failed to change file offset"
      [] code = ZIP_ERR_MEM_ALLOC -> "Memory allocation failed"
      [] code = ZIP_ERR_INVALID_ARG -> "Invalid argument provided"
      [] code = ZIP_ERR_BAD_BUFFER -> "Bad file descriptor"
      [] code = ZIP_ERR_BUFFER_TOO_SMALL -> "ZIP file is too small or invalid"
      [] code = ZIP_ERR_BUFFER_TRUNCATED ->
             "File ended prematurely or incomplete read"
      [] code = ZIP_ERR_EOCD_NOT_FOUND ->
             "End of Central Directory record not found"
      [] code = ZIP_ERR_EOCD_SIGNATURE_BAD -> "Incorrect EOCD signature"
      [] code = ZIP_ERR_EOCD_CORRUPT_FIELDS ->
             "EOCD fields are corrupted or inconsistent"
      [] code = ZIP_ERR_CENTRAL_DIR_LOC -> "Failed to seek to Central Directory"
      [] code = ZIP_ERR_CENTRAL_DIR_READ ->
             "Failed to read Central Directory data"
      [] code = ZIP_ERR_CENTRAL_DIR_CORRUPT ->
             "Central Directory data is corrupted"
      [] code = ZIP_ERR_CD_ENTRY_SIGNATURE_BAD ->
             "Central Directory entry has incorrect signature"
      [] code = ZIP_ERR_CD_ENTRY_CORRUPT ->
             "Central Directory entry fields are corrupted"
      [] code = ZIP_ERR_LFH_LOC -> "Failed to seek to Local File Header"
      [] code = ZIP_ERR_LFH_READ -> "Failed to read Local File Header"
      [] code = ZIP_ERR_LFH_SIGNATURE_BAD ->
             "Local File Header has incorrect signature"
      [] code = ZIP_ERR_LFH_CORRUPT -> "Local File Header fields are corrupted"
      [] code = ZIP_ERR_COMPRESSION_UNSUPPORTED ->
             "Compression method not supported"
      [] code = ZIP_ERR_DECOMPRESSION_FAILED -> "Decompression failed"
      [] code = ZIP_ERR_GENERIC -> "An unclassified generic error occurred"
      [] OTHER -> "Unknown ZIP error code"

(***************************************************************************)
(* The state of one run: main calls zip_read_directory(fd, &entry_count).  *)
(***************************************************************************)
VARIABLES
    zip,                      \* the bytes of the file (never written)
    origin,                   \* how the file was written (the program never
                              \* reads it)
    pc,                       \* the position of the program
    file_size,                \* st.st_size
    fd_open,                  \* the descriptor main opened is still open
    mapped,                   \* the mmap of the file is in place
    err,                      \* the last status code stored in err
    eocd_pos,                 \* -1 until find_eocd writes *eocd_pos_out
    search_start_offset,      \* find_eocd's lowest offset to probe
    i,                        \* the loop index of the loop being run
    probes,                   \* offsets find_eocd compared so far
    eocd,                     \* struct EOCD eocd
    entry_count,              \* main's entry_count, written through the pointer
    current_cdfh_offset,
    total_va_file_name_size,
    total_zip_entries_size,
    va_params_data_ptr,       \* as an offset into the backing region
    entries,                  \* the ZipEntry records filled so far
    heap,                     \* the heap blocks that are allocated
    nalloc,                   \* malloc requests issued by the call
    ret,                      \* what zip_read_directory returned
    rd,                       \* the buffer indices read so far
    siz_offs,                 \* the offsets the sizing pass walked
    mat_offs,                 \* the offsets the materialization pass decoded
    diag,                     \* the last diagnostic written to stderr
    exit_status,              \* how main ended
    cdfh,                     \* struct CDFH cdfh, the record last decoded
    msg                       \* the string get_zip_error_message last
                              \* returned

vars ==
    <<zip, origin, pc, file_size, fd_open, mapped, err, eocd_pos,
      search_start_offset,
      i, probes, eocd, entry_count, current_cdfh_offset,
      total_va_file_name_size, total_zip_entries_size, va_params_data_ptr,
      entries, heap, nalloc, ret, rd, siz_offs, mat_offs, diag, exit_status,
      cdfh, msg>>

\* sizeof(struct ZipEntry) on an LP64 build: a pointer, four uint32_t, two
\* uint16_t and padding
SizeofZipEntry == 32

Init ==
    /\ \E f \in Files :
         /\ zip = f.bytes
         /\ origin = [kind |-> f.kind, tamper |-> f.tamper, chain |-> f.chain,
                      eocd_at |-> f.eocd_at, comment |-> f.comment]
    /\ pc = "call"
    /\ file_size = BufSize(zip)
    /\ fd_open = TRUE
    /\ mapped = FALSE
    /\ err = ZIP_OK
    /\ eocd_pos = -1
    /\ search_start_offset = 0
    /\ i = 0
    /\ probes = 0
    /\ eocd = NoEocd
    /\ entry_count = 0
    /\ current_cdfh_offset = Wide(0)
    /\ total_va_file_name_size = 0
    /\ total_zip_entries_size = 0
    /\ va_params_data_ptr = 0
    /\ entries = <<>>
    /\ heap = {}
    /\ nalloc = 0
    /\ ret = "none"
    /\ rd = NoRead
    /\ siz_offs = <<>>
    /\ mat_offs = <<>>
    /\ diag = "none"
    /\ exit_status = "running"
    /\ cdfh = NoCdfh
    /\ msg = "none"

(***************************************************************************)
(* zip_read_directory, lines 873-898: fstat, the empty file, mmap, close.  *)
(***************************************************************************)
zrd_enter ==
    /\ pc = "call"
    /\ \E sys \in {"ok", "fstat_fail", "mmap_fail"} :
         IF sys = "fstat_fail"
         THEN /\ ret' = "NULL" /\ pc' = "returned" /\ diag' = "fstat"
              /\ UNCHANGED <<entry_count, mapped, fd_open>>
         ELSE IF file_size = 0
         THEN /\ entry_count' = 0 /\ ret' = "NULL" /\ pc' = "returned"
              /\ UNCHANGED <<mapped, fd_open, diag>>
         ELSE IF sys = "mmap_fail"
         THEN /\ ret' = "NULL" /\ pc' = "returned" /\ diag' = "mmap"
              /\ UNCHANGED <<entry_count, mapped, fd_open>>
         ELSE /\ mapped' = TRUE /\ fd_open' = FALSE /\ pc' = "find_eocd"
              /\ UNCHANGED <<entry_count, ret, diag>>
    /\ UNCHANGED <<zip, origin, cdfh, msg,
                   file_size, err, eocd_pos, search_start_offset,
                   i,
                   probes, eocd, current_cdfh_offset, total_va_file_name_size,
                   total_zip_entries_size, va_params_data_ptr, entries, heap,
                   nalloc, rd, siz_offs, mat_offs, exit_status>>

(***************************************************************************)
(* find_eocd, lines 640-658: the size test and the search window.          *)
(***************************************************************************)
\* a variant that only asks for room for the 4-byte signature
too_small_for_signature(zip_size) == zip_size < 4

too_small(zip_size) == zip_size < EOCD_FIXED_SIZE

search_start(zip_size) ==
    IF zip_size > EOCD_FIXED_SIZE + EOCD_MAX_COMMENT_LEN
    THEN zip_size - EOCD_FIXED_SIZE - EOCD_MAX_COMMENT_LEN
    ELSE 0

\* a variant whose scan starts at the last offset that has room for a
\* signature
first_probe_last_signature(zip_size) == zip_size - 4

\* a variant whose scan starts one offset too low
first_probe_skips_last(zip_size) == zip_size - EOCD_FIXED_SIZE - 1

first_probe(zip_size) == zip_size - EOCD_FIXED_SIZE

find_eocd_enter ==
    /\ pc = "find_eocd"
    /\ IF too_small(file_size)
       THEN /\ err' = ZIP_ERR_BUFFER_TOO_SMALL
            /\ pc' = "find_ret"
            /\ UNCHANGED <<search_start_offset, i>>
       ELSE /\ search_start_offset' = search_start(file_size)
            /\ i' = first_probe(file_size)
            /\ pc' = "find_loop"
            /\ UNCHANGED err
    /\ UNCHANGED <<zip, origin, cdfh, msg,
                   file_size, fd_open, mapped, eocd_pos, probes,
                   eocd,
                   entry_count, current_cdfh_offset, total_va_file_name_size,
                   total_zip_entries_size, va_params_data_ptr, entries, heap,
                   nalloc, ret, rd, siz_offs, mat_offs, diag, exit_status>>

(***************************************************************************)
(* find_eocd, lines 660-677: one iteration of the backward scan, or the    *)
(* end of the loop.                                                        *)
(***************************************************************************)
find_eocd_probe ==
    /\ pc = "find_loop"
    /\ IF i < search_start_offset
       THEN /\ err' = ZIP_ERR_EOCD_NOT_FOUND
            /\ pc' = "find_ret"
            /\ UNCHANGED <<i, eocd_pos, probes, rd>>
       ELSE IF i + 3 >= file_size
       THEN /\ i' = i - 1
            /\ UNCHANGED <<err, pc, eocd_pos, probes, rd>>
       ELSE /\ rd' = RdJoin(rd, i, i + 3)
            /\ probes' = probes + 1
            /\ IF RdU32(zip, i) = EOCD_SIGNATURE
               THEN /\ eocd_pos' = i
                    /\ err' = ZIP_OK
                    /\ pc' = "find_ret"
                    /\ UNCHANGED i
               ELSE /\ i' = i - 1
                    /\ UNCHANGED <<err, pc, eocd_pos>>
    /\ UNCHANGED <<zip, origin, cdfh, msg,
                   file_size, fd_open, mapped,
                   search_start_offset, eocd,
                   entry_count, current_cdfh_offset, total_va_file_name_size,
                   total_zip_entries_size, va_params_data_ptr, entries, heap,
                   nalloc, ret, siz_offs, mat_offs, diag, exit_status>>

(***************************************************************************)
(* zip_read_directory, lines 901-908: find_eocd has returned.              *)
(***************************************************************************)
zrd_after_find ==
    /\ pc = "find_ret"
    /\ IF err # ZIP_OK
       THEN /\ ret' = "NULL" /\ pc' = "returned"
            /\ diag' = "Error finding EOCD"
            /\ msg' = get_zip_error_message(err)
       ELSE /\ pc' = "read_eocd" /\ UNCHANGED <<ret, diag, msg>>
    /\ UNCHANGED <<zip, origin, cdfh,
                   file_size, fd_open, mapped, err, eocd_pos,
                   search_start_offset, i, probes, eocd, entry_count,
                   current_cdfh_offset, total_va_file_name_size,
                   total_zip_entries_size, va_params_data_ptr, entries, heap,
                   nalloc, rd, siz_offs, mat_offs, exit_status>>

(***************************************************************************)
(* zip_read_directory, lines 910-918: decode the EOCD at eocd_pos.         *)
(***************************************************************************)
zrd_read_eocd ==
    /\ pc = "read_eocd"
    /\ LET r == read_eocd(zip, file_size, eocd_pos, eocd)
       IN  /\ err' = r.err
           /\ eocd' = r.eocd
           /\ rd' = RdJoin(rd, r.lo, r.hi)
           /\ IF r.err # ZIP_OK
              THEN /\ ret' = "NULL" /\ pc' = "returned"
                   /\ diag' = "Error reading EOCD"
                   /\ msg' = get_zip_error_message(r.err)
              ELSE /\ pc' = "entry_count" /\ UNCHANGED <<ret, diag, msg>>
    /\ UNCHANGED <<zip, origin, cdfh,
                   file_size, fd_open, mapped, eocd_pos,
                   search_start_offset, i, probes, entry_count,
                   current_cdfh_offset, total_va_file_name_size,
                   total_zip_entries_size, va_params_data_ptr, entries, heap,
                   nalloc, siz_offs, mat_offs, exit_status>>

(***************************************************************************)
(* zip_read_directory, lines 920-929: publish the entry count, return for  *)
(* an empty directory, set up the sizing pass.                             *)
(***************************************************************************)
zrd_entry_count ==
    /\ pc = "entry_count"
    /\ entry_count' = eocd.total_entries
    /\ IF eocd.total_entries = 0
       THEN /\ mapped' = FALSE
            /\ ret' = "NULL"
            /\ pc' = "returned"
            /\ UNCHANGED <<total_va_file_name_size, total_zip_entries_size,
                           current_cdfh_offset, i>>
       ELSE /\ total_va_file_name_size' = 0
            /\ total_zip_entries_size' = eocd.total_entries * SizeofZipEntry
            /\ current_cdfh_offset' = eocd.central_dir_offset
            /\ i' = 0
            /\ pc' = "sizing"
            /\ UNCHANGED <<mapped, ret>>
    /\ UNCHANGED <<zip, origin, cdfh, msg,
                   file_size, fd_open, err, eocd_pos,
                   search_start_offset,
                   probes, eocd, va_params_data_ptr, entries, heap, nalloc, rd,
                   siz_offs, mat_offs, diag, exit_status>>

(***************************************************************************)
(* zip_read_directory, lines 930-946: one iteration of the sizing pass.    *)
(***************************************************************************)
\* a variant that tolerates an overrun of one byte
cd_overrun_off_by_one(offset, e) ==
    WGt(offset,
        WAdd(WU32(WAdd(e.central_dir_offset, e.central_dir_size)), Wide(1)))

\* a variant whose sizing pass never reports an overrun
cd_overrun_ignored(offset, e) == FALSE

\* a variant that compares with the sum as a wider type would hold it
cd_overrun_unwrapped(offset, e) ==
    WGt(offset, WAdd(e.central_dir_offset, e.central_dir_size))

\* line 941: the sum is computed in uint32_t, the comparison in off_t
cd_overrun(offset, e) ==
    WGt(offset, WU32(WAdd(e.central_dir_offset, e.central_dir_size)))

\* a variant that only asks for room for the 4-byte signature
sizing_out_of_bounds_signature_only(offset, size) ==
    WGt(WAdd(offset, Wide(4)), Wide(size))

\* a variant that forgets the 46 bytes of the fixed part
sizing_out_of_bounds_without_fixed_part(offset, size) ==
    WGt(offset, Wide(size))

\* line 931, the loop's own check: current_cdfh_offset < 0 ||
\* (size_t)current_cdfh_offset + CDFH_FIXED_SIZE > (size_t)file_size
sizing_out_of_bounds(offset, size) ==
    WGt(WAdd(offset, Wide(CDFH_FIXED_SIZE)), Wide(size))

zrd_sizing ==
    /\ pc = "sizing"
    /\ i < entry_count
    /\ IF sizing_out_of_bounds(current_cdfh_offset, file_size)
       THEN /\ diag' = "Central Directory entry offset is out of bounds"
            /\ mapped' = FALSE
            /\ ret' = "NULL"
            /\ pc' = "returned"
            /\ UNCHANGED <<i, current_cdfh_offset, total_va_file_name_size,
                           rd, siz_offs>>
       ELSE LET va_params_len ==
                    fast_cdfh_va_params_sum(zip, file_size, current_cdfh_offset)
                name_len ==
                    fast_cdfh_va_file_name(zip, file_size, current_cdfh_offset)
                next == WAdd(current_cdfh_offset,
                             Wide(va_params_len + CDFH_FIXED_SIZE))
            IN  /\ total_va_file_name_size' =
                       total_va_file_name_size + name_len + 1
                /\ current_cdfh_offset' = next
                /\ rd' = RdJoin(rd, WInt(current_cdfh_offset) + 28,
                                WInt(current_cdfh_offset) + 33)
                /\ siz_offs' = Append(siz_offs, current_cdfh_offset)
                /\ IF cd_overrun(next, eocd)
                   THEN /\ diag' = "Central Directory offset exceeds bounds"
                        /\ mapped' = FALSE
                        /\ ret' = "NULL"
                        /\ pc' = "returned"
                        /\ UNCHANGED i
                   ELSE /\ i' = i + 1
                        /\ UNCHANGED <<diag, mapped, ret, pc>>
    /\ UNCHANGED <<zip, origin, cdfh, msg,
                   file_size, fd_open, err, eocd_pos,
                   search_start_offset,
                   probes, eocd, entry_count, total_zip_entries_size,
                   va_params_data_ptr, entries, heap, nalloc, mat_offs,
                   exit_status>>

(***************************************************************************)
(* zip_read_directory, lines 948-956: the sizing pass is over; allocate    *)
(* the backing region and set up the materialization pass.                 *)
(***************************************************************************)
zrd_alloc ==
    /\ pc = "sizing"
    /\ ~(i < entry_count)
    /\ nalloc' = nalloc + 1
    /\ \E malloc_ok \in BOOLEAN :
         IF ~malloc_ok
         THEN /\ diag' = "malloc for zip entries and data"
              /\ mapped' = FALSE
              /\ ret' = "NULL"
              /\ pc' = "returned"
              /\ UNCHANGED <<heap, current_cdfh_offset, va_params_data_ptr, i>>
         ELSE /\ heap' = heap \cup {"entries"}
              /\ current_cdfh_offset' = eocd.central_dir_offset
              /\ va_params_data_ptr' = total_zip_entries_size
              /\ i' = 0
              /\ pc' = "mat"
              /\ UNCHANGED <<diag, mapped, ret>>
    /\ UNCHANGED <<zip, origin, cdfh, msg,
                   file_size, fd_open, err, eocd_pos,
                   search_start_offset,
                   probes, eocd, entry_count, total_va_file_name_size,
                   total_zip_entries_size, entries, rd, siz_offs, mat_offs,
                   exit_status>>

(***************************************************************************)
(* zip_read_directory, lines 957-993: one iteration of the                 *)
(* materialization pass.  The name copy read_cdfh made is freed and        *)
(* cdfh.file_name set to NULL on both ways out of the iteration.           *)
(* entries[i].file_name is assigned only when the                          *)
(* name is not empty; otherwise it keeps what malloc left in the block,    *)
(* an indeterminate pointer (junk).                                        *)
(***************************************************************************)
\* a variant whose loop has lost its bound
mat_done_never == FALSE

\* a variant whose loop stops one record early
mat_done_early == ~(i + 1 < entry_count)

mat_done == ~(i < entry_count)

\* a variant that carries on past a record with a wrong signature
read_failed_tolerant(r) ==
    r.err # ZIP_OK /\ r.err # ZIP_ERR_CD_ENTRY_SIGNATURE_BAD

read_failed(r) == r.err # ZIP_OK

\* a variant that forgets the extra field
cdfh_record_size_without_extra(c) ==
    CDFH_FIXED_SIZE + c.file_name_len + c.file_comment_len

cdfh_record_size(c) ==
    CDFH_FIXED_SIZE + c.file_name_len + c.extra_field_len + c.file_comment_len

make_entry(c, at, junk) ==
    [compressed_size |-> c.comp_size,
     uncompressed_size |-> c.uncomp_size,
     compression_method |-> c.comp_method,
     local_header_offset |-> c.local_header_offset,
     crc32 |-> c.crc32,
     general_purpose_bit_flag |-> c.bit_flag,
     file_name |->
         IF c.file_name_len > 0
         THEN [kind |-> "slice", at |-> at, bytes |-> c.file_name.bytes]
         ELSE [kind |-> junk, at |-> -1, bytes |-> <<>>]]

\* a variant that fills the array from its far end
store_entry_reversed(es, e) == <<e>> \o es

\* entries[i] = ..., for i = Len(es)
store_entry(es, e) == Append(es, e)

zrd_materialize ==
    /\ pc = "mat"
    /\ ~mat_done
    /\ \E malloc_ok \in BOOLEAN, junk \in {"null", "wild"} :
         LET r == read_cdfh(zip, file_size, current_cdfh_offset, malloc_ok)
             c == r.cdfh
         IN  /\ err' = r.err
             /\ rd' = RdJoin(rd, r.lo, r.hi)
             /\ nalloc' = nalloc + (IF r.asked THEN 1 ELSE 0)
             /\ mat_offs' = Append(mat_offs, current_cdfh_offset)
             /\ cdfh' = [c EXCEPT !.file_name = NullName]
             /\ IF read_failed(r)
                THEN /\ diag' = "Error reading Central Directory entry"
                     /\ msg' = get_zip_error_message(r.err)
                     /\ mapped' = FALSE
                     /\ ret' = "NULL"
                     /\ pc' = "returned"
                     /\ UNCHANGED <<entries, va_params_data_ptr,
                                    current_cdfh_offset, i>>
                ELSE /\ entries' =
                            store_entry(entries,
                                make_entry(c, va_params_data_ptr, junk))
                     /\ va_params_data_ptr' =
                            IF c.file_name_len > 0
                            THEN va_params_data_ptr + c.file_name_len + 1
                            ELSE va_params_data_ptr
                     /\ current_cdfh_offset' =
                            WAdd(current_cdfh_offset,
                                 Wide(cdfh_record_size(c)))
                     /\ i' = i + 1
                     /\ UNCHANGED <<diag, msg, mapped, ret, pc>>
    /\ UNCHANGED <<zip, origin, file_size, fd_open, eocd_pos,
                   search_start_offset,
                   probes, eocd, entry_count, total_va_file_name_size,
                   total_zip_entries_size, heap, siz_offs, exit_status>>

(***************************************************************************)
(* zip_read_directory, lines 995-996: every record decoded.                *)
(***************************************************************************)
zrd_return_entries ==
    /\ pc = "mat"
    /\ mat_done
    /\ mapped' = FALSE
    /\ ret' = "entries"
    /\ pc' = "returned"
    /\ UNCHANGED <<zip, origin, cdfh, msg,
                   file_size, fd_open, err, eocd_pos,
                   search_start_offset,
                   i, probes, eocd, entry_count, current_cdfh_offset,
                   total_va_file_name_size, total_zip_entries_size,
                   va_params_data_ptr, entries, heap, nalloc, rd, siz_offs,
                   mat_offs, diag, exit_status>>

(***************************************************************************)
(* main, src/src/main.c lines 61-79: exit on NULL, otherwise print every   *)
(* entry (print_metadata passes file_name to printf %s), free, return.     *)
(* Printing an indeterminate pointer may end the process.                  *)
(***************************************************************************)
main_after_call ==
    /\ pc = "returned"
    /\ pc' = "exit"
    /\ IF ret = "NULL"
       THEN /\ exit_status' = "EXIT_FAILURE"
            /\ UNCHANGED heap
       ELSE /\ heap' = heap \ {"entries"}
            /\ \E crash \in BOOLEAN :
                 exit_status' =
                     IF crash /\ \E k \in 1..Len(entries) :
                                    entries[k].file_name.kind # "slice"
                     THEN "SIGSEGV"
                     ELSE "EXIT_SUCCESS"
    /\ UNCHANGED <<zip, origin, cdfh, msg,
                   file_size, fd_open, mapped, err, eocd_pos,
                   search_start_offset, i, probes, eocd, entry_count,
                   current_cdfh_offset, total_va_file_name_size,
                   total_zip_entries_size, va_params_data_ptr, entries,
                   nalloc, ret, rd, siz_offs, mat_offs, diag>>

Next ==
    \/ zrd_enter
    \/ find_eocd_enter
    \/ find_eocd_probe
    \/ zrd_after_find
    \/ zrd_read_eocd
    \/ zrd_entry_count
    \/ zrd_sizing
    \/ zrd_alloc
    \/ zrd_materialize
    \/ zrd_return_entries
    \/ main_after_call

Spec == Init /\ [][Next]_vars

\* the program is sequential code and nothing it calls blocks: a step that
\* can be taken is taken
FairSpec == Spec /\ WF_vars(Next)

(***************************************************************************)
(* The functions of zip.c called on their own: read_eocd and read_cdfh at  *)
(* every offset of a buffer (and just outside it), get_zip_error_message   *)
(* on every code of a range.  The arguments and results are held in the    *)
(* variables that hold them in zip_read_directory.                         *)
(***************************************************************************)
MaxCode == 100

Codes == (-1)..MaxCode

UnitChains == { <<>>, <<ShapeA, ShapeB>> } \cup { <<r>> : r \in Shapes }

UnitFiles ==
    JunkFiles
    \cup { Archive(pre, rs, t, c) :
              pre \in Prefixes, rs \in UnitChains,
              t \in {"none", "more", "size_wrap"},
              c \in { <<>>, <<122, 105, 112>> } }

UnitInit ==
    /\ pc \in {"call_read_eocd", "call_read_cdfh",
                "call_get_zip_error_message"}
    /\ \E f \in IF pc = "call_get_zip_error_message"
                 THEN {Junk([head |-> <<>>, gap |-> 0, tail |-> <<>>])}
                 ELSE UnitFiles :
         /\ zip = f.bytes
         /\ origin = [kind |-> f.kind, tamper |-> f.tamper, chain |-> f.chain,
                      eocd_at |-> f.eocd_at, comment |-> f.comment]
    /\ file_size = BufSize(zip)
    /\ eocd_pos \in IF pc = "call_read_eocd" THEN (-1)..file_size ELSE {-1}
    /\ current_cdfh_offset \in
           IF pc = "call_read_cdfh"
           THEN { Wide(p) : p \in 0..file_size }
           ELSE { Wide(0) }
    /\ err \in IF pc = "call_get_zip_error_message" THEN Codes ELSE {ZIP_OK}
    /\ fd_open = FALSE
    /\ mapped = TRUE
    /\ search_start_offset = 0
    /\ i = 0
    /\ probes = 0
    /\ eocd = NoEocd
    /\ entry_count = 0
    /\ total_va_file_name_size = 0
    /\ total_zip_entries_size = 0
    /\ va_params_data_ptr = 0
    /\ entries = <<>>
    /\ heap = {}
    /\ nalloc = 0
    /\ ret = "none"
    /\ rd = NoRead
    /\ siz_offs = <<>>
    /\ mat_offs = <<>>
    /\ diag = "none"
    /\ exit_status = "running"
    /\ cdfh = NoCdfh
    /\ msg = "none"

\* err = read_eocd(mapped_zip_file, file_size, eocd_pos, &eocd)
call_read_eocd ==
    /\ pc = "call_read_eocd"
    /\ LET r == read_eocd(zip, file_size, eocd_pos, eocd)
       IN  /\ err' = r.err
           /\ eocd' = r.eocd
           /\ rd' = RdJoin(rd, r.lo, r.hi)
    /\ pc' = "read_eocd_returned"
    /\ UNCHANGED <<zip, origin, cdfh, msg, file_size, fd_open, mapped,
                   eocd_pos, search_start_offset, i, probes, entry_count,
                   current_cdfh_offset, total_va_file_name_size,
                   total_zip_entries_size, va_params_data_ptr, entries, heap,
                   nalloc, ret, siz_offs, mat_offs, diag, exit_status>>

\* cdfh.file_name = NULL;
\* err = read_cdfh(mapped_zip_file, file_size, current_cdfh_offset, &cdfh)
call_read_cdfh ==
    /\ pc = "call_read_cdfh"
    /\ \E malloc_ok \in BOOLEAN :
         LET r == read_cdfh(zip, file_size, current_cdfh_offset, malloc_ok)
         IN  /\ err' = r.err
             /\ cdfh' = r.cdfh
             /\ rd' = RdJoin(rd, r.lo, r.hi)
             /\ nalloc' = nalloc + (IF r.asked THEN 1 ELSE 0)
             /\ heap' = IF r.cdfh.file_name.alloc
                        THEN heap \cup {"cdfh.file_name"}
                        ELSE heap
    /\ pc' = "read_cdfh_returned"
    /\ UNCHANGED <<zip, origin, msg, file_size, fd_open, mapped, eocd_pos,
                   search_start_offset, i, probes, eocd, entry_count,
                   current_cdfh_offset, total_va_file_name_size,
                   total_zip_entries_size, va_params_data_ptr, entries, ret,
                   siz_offs, mat_offs, diag, exit_status>>

\* get_zip_error_message(err)
call_get_zip_error_message ==
    /\ pc = "call_get_zip_error_message"
    /\ msg' = get_zip_error_message(err)
    /\ pc' = "get_zip_error_message_returned"
    /\ UNCHANGED <<zip, origin, cdfh, file_size, fd_open, mapped, err,
                   eocd_pos, search_start_offset, i, probes, eocd,
                   entry_count, current_cdfh_offset, total_va_file_name_size,
                   total_zip_entries_size, va_params_data_ptr, entries, heap,
                   nalloc, ret, rd, siz_offs, mat_offs, diag, exit_status>>

UnitNext ==
    \/ call_read_eocd
    \/ call_read_cdfh
    \/ call_get_zip_error_message

UnitSpec == UnitInit /\ [][UnitNext]_vars

(***************************************************************************)
(* What the file says, read off its bytes: the EOCD fields at the offset   *)
(* find_eocd reported and the chain of CDFH records that starts at         *)
(* central_dir_offset.                                                     *)
(***************************************************************************)
FileTotalEntries == RdU16(zip, eocd_pos + 10)

FileCdSize == RdU32(zip, eocd_pos + 12)

FileCdOffset == RdU32(zip, eocd_pos + 16)

\* the offset of record k of the chain (k = 0 is the first record); defined
\* when the records before k lie inside the buffer
RECURSIVE ChainOff(_)
ChainOff(k) ==
    IF k = 0 THEN FileCdOffset
    ELSE LET p == ChainOff(k - 1)
         IN  WAdd(p, Wide(CDFH_FIXED_SIZE + RdU16(zip, WInt(p) + 28)
                            + RdU16(zip, WInt(p) + 30)
                            + RdU16(zip, WInt(p) + 32)))

\* record k has its 46 fixed bytes and its name inside the buffer and
\* carries the CDFH signature
RecordDecodes(k) ==
    /\ WLe(WAdd(ChainOff(k), Wide(CDFH_FIXED_SIZE)), Wide(file_size))
    /\ RdU32(zip, WInt(ChainOff(k))) = CDFH_SIGNATURE
    /\ WInt(ChainOff(k)) + CDFH_FIXED_SIZE + RdU16(zip, WInt(ChainOff(k)) + 28)
           <= file_size

Returned == pc \in {"returned", "exit"}

(***************************************************************************)
(* C1: whenever zip_read_directory returns a non-NULL collection, the      *)
(* entry count it reported equals the total_entries field of the EOCD and  *)
(* exactly that many ZipEntry records were filled.                         *)
(***************************************************************************)
C1_EntryCountIsTotalEntries ==
    ret = "entries" =>
        /\ entry_count = FileTotalEntries
        /\ Len(entries) = FileTotalEntries

C1_Witness == ret = "entries" /\ Len(entries) >= 2

(***************************************************************************)
(* C2: on success entry i is the decoding of the i-th record of the chain  *)
(* that starts at central_dir_offset, each record starting right after the *)
(* one before: the entries are in on-disk order.                           *)
(***************************************************************************)
C2_EntriesInDirectoryOrder ==
    ret = "entries" =>
        \A k \in 1..Len(entries) :
            /\ mat_offs[k] = ChainOff(k - 1)
            /\ entries[k].crc32 = RdU32(zip, WInt(ChainOff(k - 1)) + 16)
            /\ entries[k].compressed_size =
                   RdU32(zip, WInt(ChainOff(k - 1)) + 20)
            /\ entries[k].local_header_offset =
                   RdU32(zip, WInt(ChainOff(k - 1)) + 42)

C2_Witness ==
    /\ ret = "entries"
    /\ Len(entries) >= 2
    /\ entries[1].crc32 # entries[2].crc32

(***************************************************************************)
(* C3: on success every ZipEntry carries the little-endian values at       *)
(* offsets 20, 24, 10, 16, 8 and 42 of its CDFH record, and its name is    *)
(* the name_len bytes after the 46 fixed bytes (the empty string when      *)
(* name_len is 0).                                                         *)
(***************************************************************************)
C3_FieldsAndNameDecoded ==
    ret = "entries" =>
        \A k \in 1..Len(entries) :
            LET p == WInt(mat_offs[k])
            IN  /\ entries[k].compressed_size = RdU32(zip, p + 20)
                /\ entries[k].uncompressed_size = RdU32(zip, p + 24)
                /\ entries[k].compression_method = RdU16(zip, p + 10)
                /\ entries[k].crc32 = RdU32(zip, p + 16)
                /\ entries[k].general_purpose_bit_flag = RdU16(zip, p + 8)
                /\ entries[k].local_header_offset = RdU32(zip, p + 42)
                /\ entries[k].file_name.kind = "slice"
                /\ entries[k].file_name.bytes =
                       Slice(zip, p + CDFH_FIXED_SIZE, RdU16(zip, p + 28))

(***************************************************************************)
(* C4: all-or-nothing.  A collection is returned only when the EOCD was    *)
(* found and decoded and every one of the total_entries records decoded;   *)
(* once any step has failed the call returns NULL, whatever was filled.    *)
(***************************************************************************)
C4_AllOrNothing ==
    /\ ret = "entries" =>
          /\ diag = "none"
          /\ err = ZIP_OK
          /\ eocd_pos >= 0
          /\ RdU32(zip, eocd_pos) = EOCD_SIGNATURE
          /\ Len(entries) = FileTotalEntries
          /\ \A k \in 0..(FileTotalEntries - 1) : RecordDecodes(k)
    /\ (Returned /\ diag # "none") => ret = "NULL"
    /\ ~Returned => ret = "none"

C4_Witness ==
    /\ Returned
    /\ ret = "NULL"
    /\ diag = "Error reading Central Directory entry"
    /\ Len(entries) >= 1

(***************************************************************************)
(* C5: a call that fails has freed every heap block it allocated by the    *)
(* time it returns.                                                        *)
(***************************************************************************)
C5_FailureLeaksNoBlock ==
    (pc = "returned" /\ ret = "NULL") => heap = {}

(***************************************************************************)
(* C6: once zip_read_directory has returned, on whatever path, the file is *)
(* no longer mapped.                                                       *)
(***************************************************************************)
C6_MappingReleasedOnEveryExit ==
    Returned => ~mapped

(***************************************************************************)
(* C7: if the offset after any record walked by the sizing pass exceeds    *)
(* central_dir_offset + central_dir_size, the call fails with the          *)
(* central-directory-overrun diagnostic, returns NULL, has filled no       *)
(* entry, holds no heap block and has released the mapping.                *)
(***************************************************************************)
C7_ChainOverrunDetected ==
    \A k \in 1..Len(siz_offs) :
        WGt(ChainOff(k), WAdd(FileCdOffset, FileCdSize)) =>
            /\ Returned
            /\ diag = "Central Directory offset exceeds bounds"
            /\ ret = "NULL"
            /\ entries = <<>>
            /\ heap = {}
            /\ nalloc = 0
            /\ ~mapped

C7_Witness ==
    /\ Returned
    /\ diag = "Central Directory offset exceeds bounds"
    /\ Len(siz_offs) >= 2
    /\ WGt(ChainOff(Len(siz_offs)), WAdd(FileCdOffset, FileCdSize))

(***************************************************************************)
(* C8: on a buffer of at least 22 bytes find_eocd answers OK with the      *)
(* greatest offset of [max(0, size-22-65535), size-22] at which the        *)
(* little-endian signature 0x06054B50 stands, and EOCD_NOT_FOUND exactly   *)
(* when no offset of that window carries it.                               *)
(***************************************************************************)
WindowLow == IF file_size - 22 - 65535 > 0 THEN file_size - 22 - 65535 ELSE 0

WindowMatches ==
    { p \in WindowLow..(file_size - 22) : RdU32(zip, p) = EOCD_SIGNATURE }

C8_FindEocdNearestToEnd ==
    (pc = "find_ret" /\ file_size >= 22) =>
        IF WindowMatches = {}
        THEN err = ZIP_ERR_EOCD_NOT_FOUND /\ eocd_pos = -1
        ELSE /\ err = ZIP_OK
             /\ eocd_pos \in WindowMatches
             /\ \A p \in WindowMatches : p <= eocd_pos

C8_Witness ==
    /\ pc = "find_ret"
    /\ err = ZIP_OK
    /\ Cardinality(WindowMatches) >= 2

(***************************************************************************)
(* C9: on a correctly formed archive whose EOCD comment contains the       *)
(* 4-byte EOCD signature, find_eocd answers the offset of the true EOCD    *)
(* record, and size - offset - 22 is the comment_length decoded there.     *)
(***************************************************************************)
HasSignature(c) ==
    \E j \in 1..(Len(c) - 3) : SubSeq(c, j, j + 3) = LE32(EOCD_SIGNATURE)

WellFormedArchive ==
    /\ origin.kind = "archive"
    /\ origin.tamper = "none"
    /\ \A k \in 1..Len(origin.chain) :
           origin.chain[k] \in {ShapeA, ShapeE, ShapeB}

C9_TrueEocdDespiteSignatureInComment ==
    (pc = "find_ret" /\ WellFormedArchive /\ HasSignature(origin.comment)) =>
        /\ err = ZIP_OK
        /\ eocd_pos = origin.eocd_at
        /\ file_size - eocd_pos - EOCD_FIXED_SIZE = RdU16(zip, eocd_pos + 20)

(***************************************************************************)
(* C10: on a buffer shorter than 22 bytes find_eocd answers                *)
(* BUFFER_TOO_SMALL, having read no byte of the buffer and not written the *)
(* output offset.                                                          *)
(***************************************************************************)
C10_TooSmallReadsNothing ==
    (pc = "find_ret" /\ file_size < 22) =>
        /\ err = ZIP_ERR_BUFFER_TOO_SMALL
        /\ rd = NoRead
        /\ probes = 0
        /\ eocd_pos = -1

C10_Witness ==
    /\ pc = "find_ret"
    /\ file_size = 21
    /\ err = ZIP_ERR_BUFFER_TOO_SMALL

(***************************************************************************)
(* C11: an archive whose EOCD declares total_entries = 0 (the 22-byte file *)
(* that is nothing but such an EOCD among them) is reported as a success   *)
(* with an empty collection: what the call returns differs from what a     *)
(* failed parse returns, and main ends with EXIT_SUCCESS.                  *)
(***************************************************************************)
EmptyArchiveParsed ==
    /\ Returned
    /\ diag = "none"
    /\ err = ZIP_OK
    /\ eocd_pos >= 0
    /\ eocd.signature = EOCD_SIGNATURE
    /\ FileTotalEntries = 0

C11_EmptyArchiveIsSuccess ==
    EmptyArchiveParsed =>
        /\ ret # "NULL"
        /\ pc = "exit" => exit_status = "EXIT_SUCCESS"

(***************************************************************************)
(* What the bytes of the file alone determine: the EOCD offset, whether    *)
(* the chain passes the tests of both passes, and the entry each record    *)
(* decodes to.                                                             *)
(***************************************************************************)
FileEocdPos == CHOOSE p \in WindowMatches : \A q \in WindowMatches : q <= p

\* records 0..k-1 lie inside the buffer and none ends beyond the 32-bit sum
\* central_dir_offset + central_dir_size
RECURSIVE ChainWalks(_)
ChainWalks(k) ==
    IF k = 0 THEN TRUE
    ELSE /\ ChainWalks(k - 1)
         /\ WLe(WAdd(ChainOff(k - 1), Wide(CDFH_FIXED_SIZE)), Wide(file_size))
         /\ WLe(ChainOff(k), WU32(WAdd(FileCdOffset, FileCdSize)))

RECURSIVE ChainDecodes(_)
ChainDecodes(k) ==
    IF k = 0 THEN TRUE ELSE ChainDecodes(k - 1) /\ RecordDecodes(k - 1)

FileParses ==
    /\ file_size >= EOCD_FIXED_SIZE
    /\ WindowMatches # {}
    /\ FileTotalEntries > 0
    /\ ChainWalks(FileTotalEntries)
    /\ ChainDecodes(FileTotalEntries)

\* the operating system served the run: fstat, mmap and every malloc
\* succeeded
EnvironmentServed ==
    /\ diag \notin {"fstat", "mmap", "malloc for zip entries and data"}
    /\ err # ZIP_ERR_MEM_ALLOC

(***************************************************************************)
(* C12: the outcome of a parse is a function of the bytes of the buffer,   *)
(* so two parses of the same buffer agree: both fail or both succeed, and  *)
(* on success every entry has the name text, sizes, method, crc32, flag    *)
(* and local header offset that the bytes of its record determine.         *)
(***************************************************************************)
C12_OutcomeDeterminedByBuffer ==
    (Returned /\ EnvironmentServed) =>
        /\ (file_size >= EOCD_FIXED_SIZE /\ WindowMatches # {}) =>
               eocd_pos = FileEocdPos
        /\ ret = "entries" <=> FileParses
        /\ ret = "entries" =>
              /\ Len(entries) = FileTotalEntries
              /\ \A k \in 1..Len(entries) :
                    LET p == WInt(ChainOff(k - 1))
                    IN  /\ entries[k].compressed_size = RdU32(zip, p + 20)
                        /\ entries[k].uncompressed_size = RdU32(zip, p + 24)
                        /\ entries[k].compression_method = RdU16(zip, p + 10)
                        /\ entries[k].crc32 = RdU32(zip, p + 16)
                        /\ entries[k].general_purpose_bit_flag =
                               RdU16(zip, p + 8)
                        /\ entries[k].local_header_offset =
                               RdU32(zip, p + 42)
                        /\ entries[k].file_name.kind = "slice"
                        /\ entries[k].file_name.bytes =
                               Slice(zip, p + CDFH_FIXED_SIZE,
                                     RdU16(zip, p + 28))

(***************************************************************************)
(* C13: main ends with exit status 0 exactly when the core parse           *)
(* succeeded (a collection was returned, or the archive declares no        *)
(* entry), and with a non-zero status after every core failure.            *)
(***************************************************************************)
CoreSucceeded == ret = "entries" \/ EmptyArchiveParsed

C13_ExitStatusMatchesParse ==
    pc = "exit" => (exit_status = "EXIT_SUCCESS" <=> CoreSucceeded)

(***************************************************************************)
(* C14: read_eocd at offset p fails, having read no byte, when p < 0 or    *)
(* p + 22 > size; fails with EOCD_SIGNATURE_BAD when the bytes at p are    *)
(* not 50 4B 05 06; and otherwise answers OK with this_disk,               *)
(* central_dir_disk, total_entries_this_disk, total_entries,               *)
(* central_dir_size, central_dir_offset and comment_length equal to the    *)
(* little-endian values at p+4, p+6, p+8, p+10, p+12, p+16 and p+20.  At   *)
(* the EOCD of a generated archive these are the values the record was     *)
(* written from.                                                           *)
(***************************************************************************)
C14_ReadEocdDecodes ==
    pc = "read_eocd_returned" =>
        IF eocd_pos < 0 \/ eocd_pos + 22 > file_size
        THEN err # ZIP_OK /\ rd = NoRead
        ELSE IF Slice(zip, eocd_pos, 4) # <<80, 75, 5, 6>>
        THEN err = ZIP_ERR_EOCD_SIGNATURE_BAD
        ELSE /\ err = ZIP_OK
             /\ eocd.this_disk = RdU16(zip, eocd_pos + 4)
             /\ eocd.central_dir_disk = RdU16(zip, eocd_pos + 6)
             /\ eocd.total_entries_this_disk = RdU16(zip, eocd_pos + 8)
             /\ eocd.total_entries = RdU16(zip, eocd_pos + 10)
             /\ eocd.central_dir_size = RdU32(zip, eocd_pos + 12)
             /\ eocd.central_dir_offset = RdU32(zip, eocd_pos + 16)
             /\ eocd.comment_length = RdU16(zip, eocd_pos + 20)
             /\ (origin.kind = "archive" /\ eocd_pos = origin.eocd_at) =>
                    /\ eocd.comment_length = Len(origin.comment)
                    /\ origin.tamper = "none" =>
                          /\ eocd.total_entries = Len(origin.chain)
                          /\ WAdd(eocd.central_dir_offset,
                                  eocd.central_dir_size) = Wide(eocd_pos)
                          /\ WInt(eocd.central_dir_size) =
                                 Len(ChainBytes(origin.chain))

C14_Witness ==
    /\ pc = "read_eocd_returned"
    /\ err = ZIP_OK
    /\ origin.kind = "archive"
    /\ origin.tamper = "none"
    /\ eocd_pos = origin.eocd_at
    /\ eocd.total_entries = 2
    /\ eocd.comment_length = 3
    /\ eocd.central_dir_offset # eocd.central_dir_size

(***************************************************************************)
(* C15: read_cdfh at offset p answers BUFFER_TRUNCATED when p + 46 > size; *)
(* otherwise CD_ENTRY_SIGNATURE_BAD when the bytes at p are not            *)
(* 50 4B 01 02; otherwise BUFFER_TRUNCATED when name_len > 0 and           *)
(* p + 46 + name_len > size.  The tests apply in that order, and after     *)
(* every failure the output record holds no name copy: file_name is NULL   *)
(* and no heap block is live.                                              *)
(***************************************************************************)
NoNameCopy == cdfh.file_name = NullName /\ heap = {}

C15_ReadCdfhChecksInOrder ==
    pc = "read_cdfh_returned" =>
        LET p == WInt(current_cdfh_offset)
            name_len == RdU16(zip, p + 28)
        IN  IF p + 46 > file_size
            THEN err = ZIP_ERR_BUFFER_TRUNCATED /\ NoNameCopy /\ nalloc = 0
            ELSE IF Slice(zip, p, 4) # <<80, 75, 1, 2>>
            THEN /\ err = ZIP_ERR_CD_ENTRY_SIGNATURE_BAD
                 /\ NoNameCopy
                 /\ nalloc = 0
            ELSE IF name_len > 0 /\ p + 46 + name_len > file_size
            THEN err = ZIP_ERR_BUFFER_TRUNCATED /\ NoNameCopy /\ nalloc = 0
            ELSE /\ err \in {ZIP_OK, ZIP_ERR_MEM_ALLOC}
                 /\ err # ZIP_OK => NoNameCopy

\* a record that fails the signature test and would also fail the name test
C15_Witness ==
    /\ pc = "read_cdfh_returned"
    /\ err = ZIP_ERR_CD_ENTRY_SIGNATURE_BAD
    /\ WInt(current_cdfh_offset) + 46 = file_size
    /\ RdU16(zip, WInt(current_cdfh_offset) + 28) > 0

(***************************************************************************)
(* C16: get_zip_error_message answers a string for every integer code and  *)
(* changes nothing else: "No error" for ZIP_OK, for every status code a    *)
(* message that no other status code has, and "Unknown ZIP error code"     *)
(* for every integer that is not a status code.                            *)
(***************************************************************************)
DefinedCodes ==
    {ZIP_OK, ZIP_ERR_IO_READ, ZIP_ERR_IO_WRITE, ZIP_ERR_IO_SEEK,
     ZIP_ERR_MEM_ALLOC, ZIP_ERR_INVALID_ARG, ZIP_ERR_BAD_BUFFER,
     ZIP_ERR_BUFFER_TOO_SMALL, ZIP_ERR_BUFFER_TRUNCATED,
     ZIP_ERR_EOCD_NOT_FOUND, ZIP_ERR_EOCD_SIGNATURE_BAD,
     ZIP_ERR_EOCD_CORRUPT_FIELDS, ZIP_ERR_CENTRAL_DIR_LOC,
     ZIP_ERR_CENTRAL_DIR_READ, ZIP_ERR_CENTRAL_DIR_CORRUPT,
     ZIP_ERR_CD_ENTRY_SIGNATURE_BAD, ZIP_ERR_CD_ENTRY_CORRUPT,
     ZIP_ERR_LFH_LOC, ZIP_ERR_LFH_READ, ZIP_ERR_LFH_SIGNATURE_BAD,
     ZIP_ERR_LFH_CORRUPT, ZIP_ERR_COMPRESSION_UNSUPPORTED,
     ZIP_ERR_DECOMPRESSION_FAILED, ZIP_ERR_GENERIC}

C16_MessageForEveryCode ==
    pc = "get_zip_error_message_returned" =>
        /\ msg # "none"
        /\ rd = NoRead /\ heap = {} /\ nalloc = 0 /\ diag = "none"
        /\ err = ZIP_OK => msg = "No error"
        /\ err \in DefinedCodes =>
              /\ msg # "Unknown ZIP error code"
              /\ \A c \in DefinedCodes \ {err} :
                     get_zip_error_message(c) # msg
        /\ err \notin DefinedCodes => msg = "Unknown ZIP error code"

C16_Witness ==
    /\ pc = "get_zip_error_message_returned"
    /\ err = ZIP_ERR_LFH_CORRUPT
    /\ msg = "Local File Header fields are corrupted"

(***************************************************************************)
(* C17: whatever 32-bit values the EOCD carries, a successful parse has    *)
(* walked to an offset no greater than the mathematical sum                *)
(* central_dir_offset + central_dir_size.  A sum of 2^32 or more does not  *)
(* let a walk through: the sum the code compares with is then smaller      *)
(* than central_dir_offset, and the first record walked is refused.        *)
(***************************************************************************)
SumWraps == WGt(WAdd(FileCdOffset, FileCdSize), Hex32(65535, 65535))

C17_BoundSurvivesWraparound ==
    /\ ret = "entries" =>
          /\ current_cdfh_offset = ChainOff(Len(entries))
          /\ WLe(current_cdfh_offset, WAdd(FileCdOffset, FileCdSize))
    /\ (Len(siz_offs) >= 1 /\ SumWraps) =>
          /\ Returned
          /\ ret = "NULL"
          /\ diag = "Central Directory offset exceeds bounds"

C17_Witness ==
    /\ Returned
    /\ Len(siz_offs) >= 1
    /\ SumWraps
    /\ diag = "Central Directory offset exceeds bounds"

(***************************************************************************)
(* C18: in the sizing pass and in the materialization pass alike, record 0 *)
(* is taken at central_dir_offset and record i+1 at the offset of record i *)
(* plus 46 plus the name, extra field and comment lengths of record i; so  *)
(* the materialization pass decodes each record at the offset the sizing   *)
(* pass validated for it.                                                  *)
(***************************************************************************)
C18_BothPassesWalkSameOffsets ==
    /\ \A k \in 1..Len(siz_offs) : siz_offs[k] = ChainOff(k - 1)
    /\ Len(mat_offs) <= Len(siz_offs)
    /\ \A k \in 1..Len(mat_offs) :
           /\ mat_offs[k] = ChainOff(k - 1)
           /\ mat_offs[k] = siz_offs[k]

C18_Witness ==
    /\ ret = "entries"
    /\ Len(mat_offs) >= 2
    /\ RdU16(zip, WInt(mat_offs[1]) + 30) > 0
    /\ mat_offs[2] # WAdd(mat_offs[1], Wide(CDFH_FIXED_SIZE))

(***************************************************************************)
(* C19: every index of the buffer that find_eocd, read_eocd,               *)
(* fast_cdfh_va_params_sum, fast_cdfh_va_file_name and read_cdfh (fixed    *)
(* part and name copy) read during one call of zip_read_directory lies in  *)
(* [0, size).                                                              *)
(***************************************************************************)
C19_EveryReadInBounds ==
    rd # NoRead => (0 <= rd.lo /\ rd.lo <= rd.hi /\ rd.hi < file_size)

\* a run that read the first and the last byte of the file and copied names
C19_Witness ==
    /\ ret = "entries"
    /\ Len(entries) >= 2
    /\ nalloc >= 2
    /\ rd.lo = 0
    /\ rd.hi = file_size - 1

(***************************************************************************)
(* C20: one call of zip_read_directory issues exactly one heap allocation  *)
(* request, the one for the backing region, however many entries the       *)
(* directory has: never more than one, and exactly one once the sizing     *)
(* pass is over.                                                           *)
(***************************************************************************)
C20_OneAllocationPerCall ==
    /\ nalloc <= 1
    /\ (pc = "mat" \/ ret = "entries") => nalloc = 1

(***************************************************************************)
(* C21: the backing region has total_entries * sizeof(struct ZipEntry)     *)
(* bytes for the array plus name_len + 1 bytes for every record; every     *)
(* name written by the materialization pass (name_len bytes and the        *)
(* terminator) lies between the end of the array and the end of the        *)
(* region, the cursor never passes the end of the region, and the names    *)
(* of different entries do not overlap.                                    *)
(***************************************************************************)
\* name_len + 1 summed over records 0..k-1 of the chain
RECURSIVE NameBytes(_)
NameBytes(k) ==
    IF k = 0 THEN 0
    ELSE NameBytes(k - 1) + RdU16(zip, WInt(ChainOff(k - 1)) + 28) + 1

RegionSize == total_zip_entries_size + total_va_file_name_size

NameEnd(e) == e.file_name.at + Len(e.file_name.bytes) + 1

C21_NamesInsideBackingRegion ==
    (pc = "mat" \/ ret = "entries") =>
        /\ total_zip_entries_size = FileTotalEntries * SizeofZipEntry
        /\ total_va_file_name_size = NameBytes(FileTotalEntries)
        /\ total_zip_entries_size <= va_params_data_ptr
        /\ va_params_data_ptr <= RegionSize
        /\ \A k \in 1..Len(entries) :
               entries[k].file_name.kind = "slice" =>
                   /\ total_zip_entries_size <= entries[k].file_name.at
                   /\ NameEnd(entries[k]) <= va_params_data_ptr
                   /\ \A j \in 1..(k - 1) :
                          entries[j].file_name.kind = "slice" =>
                              NameEnd(entries[j]) <= entries[k].file_name.at

C21_Witness ==
    /\ ret = "entries"
    /\ Len(entries) = 2
    /\ entries[1].file_name.kind = "slice"
    /\ entries[2].file_name.kind = "slice"
    /\ Len(entries[1].file_name.bytes) = 5
    /\ entries[2].file_name.at = 2 * SizeofZipEntry + 6
    /\ va_params_data_ptr = RegionSize

(***************************************************************************)
(* C22: corrupt records are never skipped.  On a successful parse every    *)
(* one of the total_entries records of the chain starts with the bytes     *)
(* 50 4B 01 02; a record with any other signature, at whatever index, is   *)
(* the last one the materialization pass decodes: the call returns NULL    *)
(* with CD_ENTRY_SIGNATURE_BAD and no entry is filled for it.              *)
(***************************************************************************)
SignatureAt(p) == Slice(zip, WInt(p), 4) = <<80, 75, 1, 2>>

C22_CorruptRecordFailsParse ==
    /\ ret = "entries" =>
          \A k \in 0..(FileTotalEntries - 1) : SignatureAt(ChainOff(k))
    /\ \A k \in 1..Len(mat_offs) :
           ~SignatureAt(mat_offs[k]) =>
               /\ k = Len(mat_offs)
               /\ Returned
               /\ ret = "NULL"
               /\ err = ZIP_ERR_CD_ENTRY_SIGNATURE_BAD
               /\ Len(entries) = k - 1

\* the second of two records has a wrong signature
C22_Witness ==
    /\ Returned
    /\ ret = "NULL"
    /\ Len(mat_offs) = 2
    /\ SignatureAt(mat_offs[1])
    /\ ~SignatureAt(mat_offs[2])
    /\ FileTotalEntries = 2

(***************************************************************************)
(* C23: every ZipEntry of a returned collection, an entry of a record with *)
(* name_len = 0 included, has file_name pointing at a NUL-terminated slice *)
(* inside the backing region (the empty string when name_len = 0); no      *)
(* returned entry has a pointer that was never set.                        *)
(***************************************************************************)
C23_EveryNamePointerSet ==
    ret = "entries" =>
        \A k \in 1..Len(entries) :
            /\ entries[k].file_name.kind = "slice"
            /\ total_zip_entries_size <= entries[k].file_name.at
            /\ NameEnd(entries[k]) <= RegionSize
            /\ Len(entries[k].file_name.bytes) =
                   RdU16(zip, WInt(mat_offs[k]) + 28)

(***************************************************************************)
(* C24: the phases come in order.  The sizing pass starts only after       *)
(* find_eocd and read_eocd both succeeded; the backing region is asked for *)
(* and the materialization pass started only after the sizing pass walked  *)
(* all total_entries records with no bounds or overrun violation; a call   *)
(* that fails in the sizing pass has issued no allocation request.         *)
(***************************************************************************)
SizingStarted == pc \in {"sizing", "mat"} \/ Len(siz_offs) >= 1

SizingFailed ==
    diag \in {"Central Directory entry offset is out of bounds",
              "Central Directory offset exceeds bounds"}

C24_PhasesInOrder ==
    /\ SizingStarted =>
          /\ eocd_pos >= 0
          /\ Slice(zip, eocd_pos, 4) = <<80, 75, 5, 6>>
          /\ eocd.signature = EOCD_SIGNATURE
          /\ eocd.total_entries = FileTotalEntries
          /\ eocd.total_entries > 0
    /\ (nalloc >= 1 \/ pc = "mat" \/ Len(mat_offs) >= 1) =>
          /\ SizingStarted
          /\ ~SizingFailed
          /\ Len(siz_offs) = FileTotalEntries
          /\ ChainWalks(FileTotalEntries)
    /\ (pc = "mat" \/ Len(mat_offs) >= 1) => nalloc >= 1
    /\ SizingFailed =>
          /\ Returned
          /\ ret = "NULL"
          /\ nalloc = 0
          /\ heap = {}
          /\ mat_offs = <<>>

\* the sizing pass walked one record and refused the next
C24_Witness ==
    /\ Returned
    /\ diag = "Central Directory entry offset is out of bounds"
    /\ Len(siz_offs) >= 1
    /\ nalloc = 0

(***************************************************************************)
(* C25: inside zip_read_directory, whenever find_eocd succeeds the         *)
(* read_eocd call that follows succeeds too: the offset p it is given      *)
(* satisfies 0 <= p and p + 22 <= size and the bytes at p are 50 4B 05 06, *)
(* so the exit that reports an EOCD decoding failure is never taken.       *)
(***************************************************************************)
C25_ReadEocdNeverFailsAfterFind ==
    /\ pc = "read_eocd" =>
          /\ 0 <= eocd_pos
          /\ eocd_pos + 22 <= file_size
          /\ Slice(zip, eocd_pos, 4) = <<80, 75, 5, 6>>
    /\ pc = "entry_count" => err = ZIP_OK
    /\ diag # "Error reading EOCD"
    /\ err # ZIP_ERR_EOCD_SIGNATURE_BAD
    /\ (Returned /\ err = ZIP_ERR_BUFFER_TRUNCATED) =>
           diag = "Error reading Central Directory entry"

\* read_eocd has decoded an EOCD that is neither at the start nor at the end
\* of the window
C25_Witness ==
    /\ pc = "entry_count"
    /\ err = ZIP_OK
    /\ rd.hi = eocd_pos + 21
    /\ eocd_pos > 0
    /\ eocd_pos + 22 < file_size

(***************************************************************************)
(* C26: on a successful parse every record walked lies wholly inside the   *)
(* buffer: for each i < total_entries the record at offset(i), with its    *)
(* 46 fixed bytes, name, extra field and comment, ends at or before size;  *)
(* so offset(total_entries) <= size, even when central_dir_offset +        *)
(* central_dir_size is greater than size.                                  *)
(***************************************************************************)
C26_RecordsInsideBuffer ==
    ret = "entries" =>
        /\ \A k \in 1..FileTotalEntries :
               WLe(ChainOff(k), Wide(file_size))
        /\ WLe(current_cdfh_offset, Wide(file_size))

(***************************************************************************)
(* C27: when zip_read_directory returns NULL after a failure of the sizing *)
(* pass, of the allocation or of the materialization pass, the caller's    *)
(* entry_count is 0, the value it had before the call: NULL is never       *)
(* paired with a non-zero entry count.                                     *)
(***************************************************************************)
LateFailure ==
    /\ Returned
    /\ ret = "NULL"
    /\ diag \in {"Central Directory entry offset is out of bounds",
                 "Central Directory offset exceeds bounds",
                 "malloc for zip entries and data",
                 "Error reading Central Directory entry"}

C27_FailureLeavesEntryCountZero ==
    LateFailure => entry_count = 0

(***************************************************************************)
(* C28: the parse terminates on every buffer.  find_eocd probes at most    *)
(* min(size - 21, 65536) offsets, each lower than the one before; each of  *)
(* the two passes takes at most total_entries (<= 65535) records; and      *)
(* every call eventually returns, with a collection or with NULL.          *)
(***************************************************************************)
MaxProbes ==
    IF file_size < 22 THEN 0
    ELSE IF file_size - 21 < 65536 THEN file_size - 21 ELSE 65536

IterationBounds ==
    /\ probes <= MaxProbes
    /\ pc = "find_loop" => probes + i = file_size - 22
    /\ entry_count <= 65535
    /\ Len(siz_offs) <= entry_count
    /\ Len(mat_offs) <= entry_count
    /\ pc \in {"sizing", "mat"} => (0 <= i /\ i <= entry_count)

ScanDescends ==
    (pc = "find_loop" /\ pc' = "find_loop") =>
        (i' = i - 1 /\ probes' = probes + 1)

C28_ParseTerminates ==
    /\ []IterationBounds
    /\ [][ScanDescends]_vars
    /\ <>Returned

\* a call that has returned after several probes and both passes
C28_Witness ==
    /\ Returned
    /\ ret = "entries"
    /\ probes >= 4
    /\ Len(siz_offs) = 2
    /\ Len(mat_offs) = 2

(***************************************************************************)
(* C29: the sizing pass never takes the error return of                    *)
(* fast_cdfh_va_params_sum or fast_cdfh_va_file_name.  Every offset it     *)
(* hands them has offset + 46 <= size, so what it adds to the offset is 46 *)
(* plus the three length fields of the record there, and what it adds to   *)
(* the name size is that record's name length plus one: never the status   *)
(* value ZIP_ERR_BAD_BUFFER.                                               *)
(***************************************************************************)
FixedPartInside(offset) ==
    WLe(WAdd(offset, Wide(CDFH_FIXED_SIZE)), Wide(file_size))

LengthFields(offset) ==
    RdU16(zip, WInt(offset) + 28) + RdU16(zip, WInt(offset) + 30)
        + RdU16(zip, WInt(offset) + 32)

RECURSIVE SizedNameBytes(_)
SizedNameBytes(k) ==
    IF k = 0 THEN 0
    ELSE SizedNameBytes(k - 1) + RdU16(zip, WInt(siz_offs[k]) + 28) + 1

OffsetAfter(k) ==
    IF k < Len(siz_offs) THEN siz_offs[k + 1] ELSE current_cdfh_offset

DuringSizing ==
    \/ pc = "sizing"
    \/ Returned /\ diag \in {"Central Directory entry offset is out of bounds",
                             "Central Directory offset exceeds bounds"}

C29_SizingNeverAddsStatusCode ==
    /\ \A k \in 1..Len(siz_offs) : FixedPartInside(siz_offs[k])
    /\ total_va_file_name_size = SizedNameBytes(Len(siz_offs))
    /\ \A k \in 1..Len(siz_offs) :
          (k < Len(siz_offs) \/ DuringSizing) =>
              OffsetAfter(k) =
                  WAdd(siz_offs[k],
                       Wide(CDFH_FIXED_SIZE + LengthFields(siz_offs[k])))

\* the loop sized one record and refused the next offset itself, so the two
\* functions were not called there
C29_Witness ==
    /\ Returned
    /\ diag = "Central Directory entry offset is out of bounds"
    /\ Len(siz_offs) >= 1
    /\ ~FixedPartInside(current_cdfh_offset)
    /\ WLe(current_cdfh_offset, Wide(file_size))

====
